---- MODULE Spec2Model ----
(***************************************************************************)
(* A model of blockwatcher_runner.py: the BlockWatcherRunner that loads    *)
(* network records (files or database), writes the configuration the       *)
(* monitor binary needs, launches and supervises the binary, and polls the *)
(* data directory for per-network progress markers.                        *)
(*                                                                         *)
(* JSON values are tagged pairs <<tag, payload>> so that values of         *)
(* different Python types can be compared: a str is <<"str", s>>, an int   *)
(* <<"num", n>>, a bool <<"bool", b>>, None <<"null", 0>>, a dict          *)
(* <<"obj", f>> with f a function from keys to JSON values, a list         *)
(* <<"list", seq>>.                                                        *)
(***************************************************************************)
EXTENDS Integers, Sequences, FiniteSets, TLC

VARIABLES
    use_database,   \* self.use_database
    verbose,        \* self.verbose
    store_blocks,   \* self.store_blocks
    self_networks,  \* self.networks: the requested slugs (empty: all)
    db,             \* the relational store: [up, networks, monitors, triggers, email, webhook]
    fs,             \* the file system: [network_dir, net_files, binaries]
    data_dir,       \* the networks the child writes a progress marker for
    pc,             \* position of the main thread in run() / shutdown()
    after,          \* how run() ends once cleanup() is done: "return" | "exit1" | "sigint"
    networks,       \* run()'s local `networks`: slug -> config
    written,        \* the files written under config_path: [networks, monitors, triggers]
    loaded,         \* <<>> or <<the (monitors, triggers) pair create_minimal_configs received>>
    load_failed,    \* history: the load of monitors and triggers raised
    temp_dir,       \* self.temp_dir: "none" | "allocated" | "cleaned" | "finalized"
    running,        \* self.running
    tpc,            \* position of the monitor_blocks thread
    pending,        \* marker files of the current polling iteration not read yet
    stats,          \* self.stats: network -> [first_block, last_block, blocks_processed]
    last_read,      \* history: what the latest marker read did to the statistics
    child,          \* the child process: "none" | "running" | "exited"
    child_code,     \* <<>> while the child has no exit code, else <<code>>
    term_sent,      \* self.process.terminate() delivered SIGTERM
    kill_sent,      \* self.process.kill() was called
    stop_elapsed,   \* seconds spent in self.process.wait(timeout=10)
    outcome,        \* what shutdown() reported: "none" | "Stopped" | "Killed"
    report,         \* <<>> or <<the entries the final report has printed so far>>
    iter_keys,      \* the keys of self.stats when the report's iteration began
    reading,        \* <<>> or <<network, blocks_processed>>: the entry being printed
    stdout_buf,     \* lines in the child's stdout pipe that the relay has not read
    stderr_buf,     \* lines in the child's stderr pipe
    blocked,        \* the stream the child is blocked writing to: "none" | "stdout" | "stderr"
    fatal,          \* why the run stopped before the child ran: "none" | reason
    interrupts,     \* history: the number of KeyboardInterrupts delivered
    exit_status     \* <<>> while the process runs, else <<status>>

envVars == <<use_database, verbose, store_blocks, self_networks, db, fs, data_dir>>
cfgVars == <<networks, written, loaded, load_failed>>
trackVars == <<tpc, pending, stats, last_read>>
childVars == <<child, child_code, term_sent, kill_sent>>
stopVars == <<stop_elapsed, outcome>>
iterVars == <<iter_keys, reading>>
pipeVars == <<stdout_buf, stderr_buf, blocked>>
vars == <<envVars, pc, after, cfgVars, temp_dir, running, trackVars, childVars,
          stopVars, report, iterVars, pipeVars, fatal, interrupts, exit_status>>

----------------------------------------------------------------------------
(* JSON values *)

JS(s) == <<"str", s>>
JN(n) == <<"num", n>>
JB(b) == <<"bool", b>>
JNull == <<"null", 0>>
JO(f) == <<"obj", f>>
JL(q) == <<"list", q>>

IsDict(v) == v[1] = "obj"
IsStr(v) == v[1] = "str"
\* `key in d` for a JSON value d: a dict's keys (for a str d, the code's
\* isinstance test comes first)
HasKey(v, k) == IsDict(v) /\ k \in DOMAIN v[2]
\* d.get(k, default)
Get(v, k, default) == IF k \in DOMAIN v[2] THEN v[2][k] ELSE default
\* Python truthiness of a JSON value
Truthy(v) ==
    CASE v[1] = "null" -> FALSE
      [] v[1] = "bool" -> v[2]
      [] v[1] = "num" -> v[2] # 0
      [] v[1] = "str" -> v[2] # ""
      [] v[1] = "list" -> Len(v[2]) > 0
      [] v[1] = "obj" -> DOMAIN v[2] # {}

EmptyMap == <<>>

----------------------------------------------------------------------------
(* ConfigSource: load_network_configs *)

\* self.tenant_id
TenantId == "T1"

\* rpc.get('weight', 100)
DefaultWeight == 100

\* The dict appended to formatted_urls for one value and weight.
Canonical(value, weight) ==
    JO([type_ |-> JS("rpc"),
        url |-> JO([type |-> JS("plain"), value |-> value]),
        weight |-> weight])

\* Mutant of FormatRpc: the nested {url: {value}} shape is not unwrapped.
FormatRpc_NoUnwrap(rpc) ==
    IF HasKey(rpc, "url")
    THEN Canonical(rpc[2]["url"], Get(rpc, "weight", JN(DefaultWeight)))
    ELSE Canonical(rpc, JN(DefaultWeight))

\* One pass of the loop body over config['rpc_urls'] for the element rpc.
FormatRpc(rpc) ==
    IF HasKey(rpc, "url")
    THEN LET url_data == rpc[2]["url"]
         IN  IF HasKey(url_data, "value")
             THEN Canonical(url_data[2]["value"], Get(rpc, "weight", JN(DefaultWeight)))
             ELSE Canonical(url_data, Get(rpc, "weight", JN(DefaultWeight)))
    ELSE Canonical(rpc, JN(DefaultWeight))

\* config['rpc_urls'] after the formatting block: untouched when falsy.
FormatRpcUrls(rpc_urls) ==
    IF Truthy(rpc_urls)
    THEN JL([i \in 1..Len(rpc_urls[2]) |-> FormatRpc(rpc_urls[2][i])])
    ELSE rpc_urls

\* The config dict built from one row of the networks table.
ConfigOfRow(row, sb) ==
    JO([name |-> JS(row.name),
        slug |-> JS(row.slug),
        network_type |-> JS(row.network_type),
        rpc_urls |-> FormatRpcUrls(row.rpc_urls),
        store_blocks |-> JB(row.store_blocks \/ sb)])

\* Mutant of SelectNetworks: the query without `AND active = true`.
SelectNetworks_NoActive(rows, sel) ==
    {r \in rows : /\ r.tenant_id = TenantId
                  /\ ~r.deleted
                  /\ (sel # {} => r.slug \in sel)}

\* The rows the SELECT returns: tenant, active, not deleted, and the slug filter
\* when slugs were requested.
SelectNetworks(rows, sel) ==
    {r \in rows : /\ r.tenant_id = TenantId
                  /\ r.active
                  /\ ~r.deleted
                  /\ (sel # {} => r.slug \in sel)}

\* The mappings load_network_configs_from_db can build: networks[row['slug']]
\* for every returned row (a later row of the same slug replaces an earlier one).
DbLoadResults(rows, sel, sb) ==
    LET got == SelectNetworks(rows, sel)
        slugs == {r.slug : r \in got}
    IN  {m \in [slugs -> {ConfigOfRow(r, sb) : r \in got}] :
            \A s \in slugs : \E r \in got : r.slug = s /\ m[s] = ConfigOfRow(r, sb)}

\* A file json.load cannot turn into a dict.
Malformed == <<"bad", 0>>

\* slug = config.get('slug', config_file.stem)
FileSlug(f) == Get(f.content, "slug", JS(f.stem))[2]

\* The files whose record is kept: parsed, and requested when slugs were requested.
KeptFiles(files, sel) ==
    {f \in files : IsDict(f.content) /\ (sel # {} => FileSlug(f) \in sel)}

\* The mappings load_network_configs_from_files can build (glob order is not
\* fixed, so either of two files with one slug may be the one that stays).
FileLoadResults(files, sel) ==
    LET kept == KeptFiles(files, sel)
        slugs == {FileSlug(f) : f \in kept}
    IN  {m \in [slugs -> {f.content : f \in kept}] :
            \A s \in slugs : \E f \in kept : FileSlug(f) = s /\ m[s] = f.content}

\* Interpreter exit: the TemporaryDirectory object's finalizer removes a directory
\* that cleanup() has not removed.
Finalize(td) == IF td = "allocated" THEN "finalized" ELSE td

\* The monitor thread is a daemon thread: it ends with the interpreter.
DaemonEnds(t) == IF t \in {"unstarted", "done"} THEN t ELSE "killed"

\* sys.exit(status), or the end of main(), or an uncaught KeyboardInterrupt.
ProcessExit(status) ==
    /\ pc' = "exit"
    /\ exit_status' = <<status>>
    /\ temp_dir' = Finalize(temp_dir)
    /\ tpc' = DaemonEnds(tpc)
    /\ pending' = {}

\* sys.exit(1) before the child is started.
FatalStartup(reason) ==
    /\ fatal' = reason
    /\ ProcessExit(1)
    /\ UNCHANGED <<envVars, iterVars, pipeVars, after, cfgVars, running, stats, last_read, childVars, stopVars,
                   report, interrupts>>

load_network_configs_from_db ==
    /\ pc = "load"
    /\ use_database
    /\ \/ /\ ~db.up
          /\ FatalStartup("db_error")
       \/ /\ db.up
          /\ DbLoadResults(db.networks, self_networks, store_blocks) = {EmptyMap}
          /\ FatalStartup("no_networks")
       \/ /\ db.up
          /\ \E m \in DbLoadResults(db.networks, self_networks, store_blocks) :
                /\ m # EmptyMap
                /\ networks' = m
          /\ pc' = "synth"
          /\ UNCHANGED <<envVars, iterVars, pipeVars, after, written, loaded, load_failed, temp_dir, running, trackVars,
                         childVars, stopVars, report, fatal, interrupts, exit_status>>

load_network_configs_from_files ==
    /\ pc = "load"
    /\ ~use_database
    /\ \/ /\ ~fs.network_dir
          /\ FatalStartup("no_network_dir")
       \/ /\ fs.network_dir
          /\ FileLoadResults(fs.net_files, self_networks) = {EmptyMap}
          /\ FatalStartup("no_networks")
       \/ /\ fs.network_dir
          /\ \E m \in FileLoadResults(fs.net_files, self_networks) :
                /\ m # EmptyMap
                /\ networks' = m
          /\ pc' = "synth"
          /\ UNCHANGED <<envVars, iterVars, pipeVars, after, written, loaded, load_failed, temp_dir, running, trackVars,
                         childVars, stopVars, report, fatal, interrupts, exit_status>>

----------------------------------------------------------------------------
(* ConfigSource: load_monitor_and_trigger_configs_from_db *)

\* A list whose order is the iteration order of a dict or of a result set, which
\* the code does not fix: kept as the set of its elements.
JSet(S) == <<"set", S>>

\* The rows of the monitors SELECT.
SelectMonitors(rows) ==
    {r \in rows : r.tenant_id = TenantId /\ r.active /\ ~r.paused /\ ~r.deleted}

\* The monitor dict built from one row (addresses, match and trigger conditions
\* are copied from the row unchanged and carry no behaviour here).
MonitorOfRow(row) ==
    JO([name |-> JS(row.slug),
        paused |-> JB(row.paused),
        networks |-> row.networks,
        triggers |-> row.triggers])

\* The keys one trigger reference adds to triggers_map: a dict's 'id', or a
\* string itself; any other reference adds none.
RefKeys(ref) ==
    IF HasKey(ref, "id") THEN {ref[2]["id"][2]}
    ELSE IF IsStr(ref) THEN {ref[2]}
    ELSE {}

\* Every key collected from the triggers of the monitor rows.
CollectedRefs(mrows) ==
    UNION {UNION {RefKeys(r.triggers[2][i]) : i \in 1..Len(r.triggers[2])} : r \in mrows}

\* The rows of the triggers SELECT for the collected references.
SelectTriggers(rows, refs) ==
    {r \in rows : /\ (r.slug \in refs \/ r.id \in refs)
                  /\ r.tenant_id = TenantId
                  /\ r.active
                  /\ ~r.deleted}

\* cur.fetchone() on a per-type table: the rows of this trigger.
SubRecords(table, trigger_id) == {e \in table : e.trigger_id = trigger_id}

\* The dict the first four assignments give trigger_config.
TriggerMeta(row) ==
    JO([id |-> JS(row.id), name |-> JS(row.name),
        slug |-> JS(row.slug), type |-> JS(row.trigger_type)])

\* trigger_config for an email trigger with its sub-record.
EmailConfig(row, e) ==
    JO(row.slug :> JO([name |-> JS(row.name),
                       trigger_type |-> JS("email"),
                       config |-> JO([host |-> JS(e.host),
                                      recipients |-> JS(e.recipients)])]))

\* trigger_config for a webhook trigger with its sub-record.
WebhookConfig(row, w) ==
    JO(row.slug :> JO([name |-> JS(row.name),
                       trigger_type |-> JS("webhook"),
                       config |-> JO([url |-> JO([type |-> JS("plain"),
                                                  value |-> JS(w.url_value)]),
                                      secret |-> IF w.secret_value # ""
                                                 THEN JO([type |-> JS("plain"),
                                                          value |-> JS(w.secret_value)])
                                                 ELSE JNull])]))

\* trigger_config as stored in triggers_map for one trigger row: the slug-keyed
\* definition when the type-specific sub-record exists, else the metadata dict.
TriggerConfigOf(row, email, webhook) ==
    IF row.trigger_type = "email" /\ SubRecords(email, row.id) # {}
    THEN EmailConfig(row, CHOOSE e \in SubRecords(email, row.id) : TRUE)
    ELSE IF row.trigger_type = "webhook" /\ SubRecords(webhook, row.id) # {}
    THEN WebhookConfig(row, CHOOSE w \in SubRecords(webhook, row.id) : TRUE)
    ELSE TriggerMeta(row)

\* for trigger_ref in row['triggers'] raises on a column that is no list.
MonitorRowsReadable(mrows) == \A r \in mrows : r.triggers[1] = "list"

\* The try block of load_monitor_and_trigger_configs_from_db raises: connecting
\* or a query failed (~ok), or a triggers column cannot be iterated.
LoadRaises(d, ok) == ~ok \/ ~MonitorRowsReadable(SelectMonitors(d.monitors))

\* The pair load_monitor_and_trigger_configs_from_db returns; ok is whether
\* connecting and querying succeeded. triggers is the list of the values of
\* triggers_map that are not None, as the set of its elements.
LoadMonitorsAndTriggers(d, ok) ==
    LET mrows == SelectMonitors(d.monitors)
    IN  IF LoadRaises(d, ok)
        THEN [monitors |-> {}, triggers |-> {}]
        ELSE [monitors |-> {MonitorOfRow(r) : r \in mrows},
              triggers |-> {TriggerConfigOf(t, d.email, d.webhook) :
                              t \in SelectTriggers(d.triggers, CollectedRefs(mrows))}]

----------------------------------------------------------------------------
(* ConfigSynthesizer: create_minimal_configs *)

\* config.copy() with store_blocks forced to True when self.store_blocks.
NetworkFile(config, sb) ==
    IF sb
    THEN JO([k \in DOMAIN config[2] \cup {"store_blocks"} |->
                IF k = "store_blocks" THEN JB(TRUE) ELSE config[2][k]])
    ELSE config

\* [slug for slug, cfg in networks.items() if cfg.get('network_type') == t]
NetworksOfType(nets, t) ==
    {s \in DOMAIN nets : Get(nets[s], "network_type", JNull) = JS(t)}

\* The evm_monitor / stellar_monitor dict.
MinimalMonitor(name, slugs, address) ==
    JO([name |-> JS(name),
        paused |-> JB(FALSE),
        networks |-> JSet(slugs),
        addresses |-> JL(<<JO([address |-> JS(address)])>>),
        triggers |-> JL(<<>>)])

\* The monitor files _create_minimal_monitor_configs writes: name -> content.
MinimalMonitorFiles(nets) ==
    LET evm_networks == NetworksOfType(nets, "EVM")
        stellar_networks == NetworksOfType(nets, "Stellar")
        names == (IF evm_networks # {} THEN {"blockwatcher_evm"} ELSE {})
                 \cup (IF stellar_networks # {} THEN {"blockwatcher_stellar"} ELSE {})
    IN  [n \in names |->
            IF n = "blockwatcher_evm"
            THEN MinimalMonitor(n, evm_networks, "0x0")
            ELSE MinimalMonitor(n, stellar_networks, "GAAA")]

\* The monitor files written for the monitors loaded from the database: one per
\* monitor name (of two monitors with one name, either may be the one that stays).
DbMonitorFiles(monitors) ==
    LET names == {m[2]["name"][2] : m \in monitors}
    IN  {f \in [names -> monitors] : \A n \in names : f[n][2]["name"][2] = n}

\* acc.update(t) for two dicts
DictUpdate(acc, t) ==
    [k \in DOMAIN acc \cup DOMAIN t |-> IF k \in DOMAIN t THEN t[k] ELSE acc[k]]

\* all_triggers after all_triggers.update(trigger) for the triggers in the order q.
RECURSIVE UpdateAll(_)
UpdateAll(q) ==
    IF q = <<>> THEN EmptyMap
    ELSE DictUpdate(UpdateAll(SubSeq(q, 1, Len(q) - 1)), q[Len(q)][2])

\* The orders a list of the given elements can have.
Orders(S) ==
    {q \in [1..Cardinality(S) -> S] : \A i, j \in 1..Cardinality(S) : q[i] = q[j] => i = j}

\* The contents all_triggers can have: the order of triggers is the order of the
\* references and of the result rows, which the code does not fix.
MergedTriggers(triggers) == {UpdateAll(q) : q \in Orders(triggers)}

\* The triggers subdirectory after the write: file name -> content.
TriggerFiles(triggers) ==
    IF triggers # {}
    THEN {"database_triggers" :> JO(m) : m \in MergedTriggers(triggers)}
    ELSE {"empty" :> JO(EmptyMap)}

create_minimal_configs ==
    /\ pc = "synth"
    /\ LET netfiles == [s \in DOMAIN networks |-> NetworkFile(networks[s], store_blocks)]
       IN  \/ /\ use_database
              /\ \E ok \in BOOLEAN :
                   LET result == LoadMonitorsAndTriggers(db, ok)
                   IN  /\ loaded' = <<result>>
                       /\ load_failed' = LoadRaises(db, ok)
                       /\ \E mf \in (IF result.monitors # {}
                                     THEN DbMonitorFiles(result.monitors)
                                     ELSE {MinimalMonitorFiles(networks)}),
                             tf \in TriggerFiles(result.triggers) :
                               written' = [networks |-> netfiles, monitors |-> mf,
                                           triggers |-> tf]
              /\ UNCHANGED temp_dir
           \/ /\ ~use_database
              /\ temp_dir' = "allocated"
              /\ written' = [networks |-> netfiles,
                             monitors |-> MinimalMonitorFiles(networks),
                             triggers |-> "empty" :> JO(EmptyMap)]
              /\ UNCHANGED <<loaded, load_failed>>
    /\ pc' = "build"
    /\ UNCHANGED <<envVars, iterVars, pipeVars, after, networks, running, trackVars, childVars, stopVars,
                   report, fatal, interrupts, exit_status>>

----------------------------------------------------------------------------
(* ProcessSupervisor: build_command, run, shutdown, cleanup *)

\* self.process.wait(timeout=10)
StopTimeout == 10

\* The candidate paths of the binary, in the order build_command tries them.
BinaryPaths == {"release", "debug", "cwd"}

\* Exit codes of a child that ends by itself.
ChildCodes == {0, 1, 2}

\* Mutant of build_command: the binary is not looked for.
build_command_NoCheck ==
    /\ pc = "build"
    /\ pc' = "start"
    /\ UNCHANGED <<envVars, iterVars, pipeVars, after, cfgVars, temp_dir, running, trackVars,
                   childVars, stopVars, report, fatal, interrupts, exit_status>>

build_command ==
    /\ pc = "build"
    /\ \/ /\ fs.binaries \cap BinaryPaths = {}
          /\ FatalStartup("no_binary")
       \/ /\ fs.binaries \cap BinaryPaths # {}
          /\ pc' = "start"
          /\ UNCHANGED <<envVars, iterVars, pipeVars, after, cfgVars, temp_dir, running, trackVars,
                         childVars, stopVars, report, fatal, interrupts, exit_status>>

\* self.running = True and the start of the monitor thread.
StartMonitorThread ==
    /\ pc = "start"
    /\ running' = TRUE
    /\ tpc' = "check"
    /\ pc' = "popen"
    /\ UNCHANGED <<envVars, iterVars, pipeVars, after, cfgVars, temp_dir, pending, stats, last_read, childVars,
                   stopVars, report, fatal, interrupts, exit_status>>

\* subprocess.Popen(...) returns: the child runs.
Launch ==
    /\ pc = "popen"
    /\ child' = "running"
    /\ pc' = IF verbose THEN "wait" ELSE "relay"
    /\ UNCHANGED <<envVars, iterVars, pipeVars, after, cfgVars, temp_dir, running, trackVars, child_code,
                   term_sent, kill_sent, stopVars, report, fatal, interrupts, exit_status>>

\* The loop over self.process.stdout.readline ends at end of file: the child has
\* closed its output.
RelayEnds ==
    /\ pc = "relay"
    /\ child = "exited"
    /\ stdout_buf = 0
    /\ pc' = "wait"
    /\ UNCHANGED <<envVars, iterVars, pipeVars, after, cfgVars, temp_dir, running, trackVars, childVars,
                   stopVars, report, fatal, interrupts, exit_status>>

\* Mutant of WaitReturns: a child that ended by itself is reported as stopped.
WaitReturns_Graceful ==
    /\ pc = "wait"
    /\ child = "exited"
    /\ outcome' = "Stopped"
    /\ pc' = "cleanup"
    /\ after' = "return"
    /\ UNCHANGED <<envVars, iterVars, pipeVars, cfgVars, temp_dir, running, trackVars,
                   childVars, stop_elapsed, report, fatal, interrupts, exit_status>>

\* self.process.wait() returns and run() goes to its finally clause.
WaitReturns ==
    /\ pc = "wait"
    /\ child = "exited"
    /\ pc' = "cleanup"
    /\ after' = "return"
    /\ UNCHANGED <<envVars, iterVars, pipeVars, cfgVars, temp_dir, running, trackVars, childVars,
                   stopVars, report, fatal, interrupts, exit_status>>

\* except Exception: Popen or the read of the child's output raised.
SupervisingError ==
    /\ pc \in {"popen", "relay"}
    /\ pc' = "shutdown"
    /\ after' = "exit1"
    /\ UNCHANGED <<envVars, iterVars, pipeVars, cfgVars, temp_dir, running, trackVars, childVars,
                   stopVars, report, fatal, interrupts, exit_status>>

\* KeyboardInterrupt before the try block of run(): nothing catches it.
InterruptStartup ==
    /\ pc \in {"load", "synth", "build"}
    /\ fatal' = "interrupt"
    /\ ProcessExit(130)
    /\ interrupts' = interrupts + 1
    /\ UNCHANGED <<envVars, iterVars, pipeVars, after, cfgVars, running, stats, last_read, childVars, stopVars,
                   report>>

\* KeyboardInterrupt inside the try block: except KeyboardInterrupt.
InterruptRun ==
    /\ pc \in {"start", "popen", "relay", "wait"}
    /\ pc' = "shutdown"
    /\ after' = "return"
    /\ interrupts' = interrupts + 1
    /\ UNCHANGED <<envVars, iterVars, pipeVars, cfgVars, temp_dir, running, trackVars, childVars,
                   stopVars, report, fatal, exit_status>>

\* KeyboardInterrupt inside shutdown(): it leaves shutdown() and the handler that
\* called it, and run() goes to its finally clause.
InterruptShutdown ==
    /\ pc \in {"stop_wait", "report", "report_next", "report_entry"}
    /\ pc' = "cleanup"
    /\ after' = "sigint"
    /\ interrupts' = interrupts + 1
    /\ UNCHANGED <<envVars, iterVars, pipeVars, cfgVars, temp_dir, running, trackVars, childVars,
                   stopVars, report, fatal, exit_status>>

\* shutdown() up to the timed wait: the run flag, and terminate() when a process
\* handle exists (terminate() signals only a child that has not exited).
ShutdownBegin ==
    /\ pc = "shutdown"
    /\ running' = FALSE
    /\ IF child # "none"
       THEN /\ term_sent' = (term_sent \/ child = "running")
            /\ stop_elapsed' = 0
            /\ pc' = "stop_wait"
       ELSE /\ pc' = "report"
            /\ UNCHANGED <<term_sent, stop_elapsed>>
    /\ UNCHANGED <<envVars, iterVars, pipeVars, after, cfgVars, temp_dir, trackVars, child, child_code,
                   kill_sent, outcome, report, fatal, interrupts, exit_status>>

\* One second of self.process.wait(timeout=10) passes with the child running.
StopTick ==
    /\ pc = "stop_wait"
    /\ child = "running"
    /\ stop_elapsed < StopTimeout
    /\ stop_elapsed' = stop_elapsed + 1
    /\ UNCHANGED <<envVars, iterVars, pipeVars, pc, after, cfgVars, temp_dir, running, trackVars,
                   childVars, outcome, report, fatal, interrupts, exit_status>>

\* The timed wait returns: "Process terminated gracefully".
StopWaitReturns ==
    /\ pc = "stop_wait"
    /\ child = "exited"
    /\ outcome' = "Stopped"
    /\ pc' = "report"
    /\ UNCHANGED <<envVars, iterVars, pipeVars, after, cfgVars, temp_dir, running, trackVars, childVars,
                   stop_elapsed, report, fatal, interrupts, exit_status>>

\* Mutant of StopTimeoutExpired: the kill does not wait for the timeout.
StopTimeoutExpired_Early ==
    /\ pc = "stop_wait"
    /\ child = "running"
    /\ kill_sent' = TRUE
    /\ child' = "exited"
    /\ child_code' = <<-9>>
    /\ outcome' = "Killed"
    /\ blocked' = "none"
    /\ pc' = "report"
    /\ UNCHANGED <<envVars, iterVars, stdout_buf, stderr_buf, after, cfgVars, temp_dir, running,
                   trackVars, term_sent, stop_elapsed, report, fatal, interrupts, exit_status>>

\* subprocess.TimeoutExpired: self.process.kill(), "Process killed forcefully".
StopTimeoutExpired ==
    /\ pc = "stop_wait"
    /\ child = "running"
    /\ stop_elapsed = StopTimeout
    /\ kill_sent' = TRUE
    /\ child' = "exited"
    /\ child_code' = <<-9>>
    /\ outcome' = "Killed"
    /\ blocked' = "none"
    /\ pc' = "report"
    /\ UNCHANGED <<envVars, iterVars, stdout_buf, stderr_buf, after, cfgVars, temp_dir, running,
                   trackVars, term_sent, stop_elapsed, report, fatal, interrupts, exit_status>>

\* `if self.stats:` and the start of the iteration over self.stats.items().
FinalStatisticsBegin ==
    /\ pc = "report"
    /\ IF stats # EmptyMap
       THEN /\ report' = <<EmptyMap>>
            /\ iter_keys' = DOMAIN stats
            /\ pc' = "report_next"
       ELSE /\ pc' = "cleanup"
            /\ UNCHANGED <<report, iter_keys>>
    /\ UNCHANGED <<envVars, pipeVars, after, cfgVars, temp_dir, running, trackVars,
                   childVars, stopVars, reading, fatal, interrupts, exit_status>>

\* The iterator's next item and the print of its 'blocks_processed': the
\* iterator raises RuntimeError (dictionary changed size during iteration) when
\* an entry was added since the iteration began; the exception leaves shutdown()
\* and run(), through the finally clause.
FinalStatisticsNext ==
    /\ pc = "report_next"
    /\ IF DOMAIN stats # iter_keys
       THEN /\ pc' = "cleanup"
            /\ after' = "exit1"
            /\ UNCHANGED reading
       ELSE IF iter_keys = DOMAIN report[1]
       THEN /\ pc' = "cleanup"
            /\ UNCHANGED <<after, reading>>
       ELSE /\ \E network \in iter_keys \ DOMAIN report[1] :
                  reading' = <<network, stats[network].blocks_processed>>
            /\ pc' = "report_entry"
            /\ UNCHANGED after
    /\ UNCHANGED <<envVars, pipeVars, cfgVars, temp_dir, running, trackVars, childVars,
                   stopVars, report, iter_keys, fatal, interrupts, exit_status>>

\* The print of the entry's 'last_block' (and of its 'last_update').
FinalStatisticsEntry ==
    /\ pc = "report_entry"
    /\ report' = <<(reading[1] :> [blocks_processed |-> reading[2],
                                   last_block |-> stats[reading[1]].last_block])
                   @@ report[1]>>
    /\ reading' = <<>>
    /\ pc' = "report_next"
    /\ UNCHANGED <<envVars, pipeVars, after, cfgVars, temp_dir, running, trackVars,
                   childVars, stopVars, iter_keys, fatal, interrupts, exit_status>>

\* Mutant of CleanedUp: cleanup() leaves the directory.
CleanedUp_Skip(td) == td

\* self.temp_dir.cleanup() when a temporary directory was allocated.
CleanedUp(td) == IF td = "allocated" THEN "cleaned" ELSE td

\* The status the interpreter ends with once run() is left: main() returns
\* nothing after runner.run() (0), sys.exit(1) of the except Exception clause, or
\* the KeyboardInterrupt that left shutdown().
StatusOf(how) == IF how = "return" THEN 0 ELSE IF how = "exit1" THEN 1 ELSE 130

\* The finally clause of run(), then the end of main().
cleanup ==
    /\ pc = "cleanup"
    /\ pc' = "exit"
    /\ exit_status' = <<StatusOf(after)>>
    /\ temp_dir' = Finalize(CleanedUp(temp_dir))
    /\ tpc' = DaemonEnds(tpc)
    /\ pending' = {}
    /\ UNCHANGED <<envVars, iterVars, pipeVars, after, cfgVars, running, stats, last_read, childVars,
                   stopVars, report, fatal, interrupts>>

\* The child ends: by itself with one of its codes, which a child blocked in a
\* write cannot do, or, once SIGTERM was delivered, by the signal.
ChildExits ==
    /\ child = "running"
    /\ pc # "exit"
    /\ \E c \in (IF blocked = "none" THEN ChildCodes ELSE {})
                \cup (IF term_sent THEN {-15} ELSE {}) :
          child_code' = <<c>>
    /\ child' = "exited"
    /\ blocked' = "none"
    /\ UNCHANGED <<envVars, iterVars, stdout_buf, stderr_buf, pc, after, cfgVars, temp_dir,
                   running, trackVars, term_sent, kill_sent, stopVars, report, fatal,
                   interrupts, exit_status>>

\* Lines a pipe holds before a write to it blocks.
PipeCapacity == 2

\* The lines in the pipe of a stream.
Buffered(stream) == IF stream = "stdout" THEN stdout_buf ELSE stderr_buf

\* The child writes a line to stdout or stderr. Without --verbose both are pipes
\* (stdout=PIPE, stderr=PIPE): the write blocks when the pipe is full.
ChildWrites ==
    /\ child = "running"
    /\ pc # "exit"
    /\ ~verbose
    /\ blocked = "none"
    /\ \E stream \in {"stdout", "stderr"} :
          IF Buffered(stream) < PipeCapacity
          THEN /\ stdout_buf' = stdout_buf + (IF stream = "stdout" THEN 1 ELSE 0)
               /\ stderr_buf' = stderr_buf + (IF stream = "stderr" THEN 1 ELSE 0)
               /\ UNCHANGED blocked
          ELSE /\ blocked' = stream
               /\ UNCHANGED <<stdout_buf, stderr_buf>>
    /\ UNCHANGED <<envVars, iterVars, pc, after, cfgVars, temp_dir, running, trackVars,
                   childVars, stopVars, report, fatal, interrupts, exit_status>>

\* A blocked write completes once its pipe has room.
ChildUnblocks ==
    /\ child = "running"
    /\ pc # "exit"
    /\ blocked # "none"
    /\ Buffered(blocked) < PipeCapacity
    /\ stdout_buf' = stdout_buf + (IF blocked = "stdout" THEN 1 ELSE 0)
    /\ stderr_buf' = stderr_buf + (IF blocked = "stderr" THEN 1 ELSE 0)
    /\ blocked' = "none"
    /\ UNCHANGED <<envVars, iterVars, pc, after, cfgVars, temp_dir, running, trackVars,
                   childVars, stopVars, report, fatal, interrupts, exit_status>>

\* self.process.stdout.readline returns a line (printed when it holds ERROR or
\* WARN). Nothing reads self.process.stderr.
RelayReads ==
    /\ pc = "relay"
    /\ stdout_buf > 0
    /\ stdout_buf' = stdout_buf - 1
    /\ UNCHANGED <<envVars, iterVars, stderr_buf, blocked, pc, after, cfgVars, temp_dir,
                   running, trackVars, childVars, stopVars, report, fatal, interrupts,
                   exit_status>>

----------------------------------------------------------------------------
(* ProgressTracker: monitor_blocks *)

\* Highest block number a progress marker holds.
MaxBlock == 3

\* What reading and parsing one marker file gives: an exception (missing, empty
\* or non-numeric content), or the block number.
MarkerReadings == {<<"err", 0>>} \cup {<<"ok", b>> : b \in 0..MaxBlock}

\* Mutant of UpdateStats: the comparison with the recorded block is dropped.
UpdateStats_NoGuard(st, network, block_num) ==
    IF network \notin DOMAIN st
    THEN (network :> [first_block |-> block_num,
                      last_block |-> block_num,
                      blocks_processed |-> 0]) @@ st
    ELSE [st EXCEPT ![network] =
             [first_block |-> st[network].first_block,
              last_block |-> block_num,
              blocks_processed |-> block_num - st[network].first_block]]

\* Mutant of UpdateStats: a block number that is not greater than the recorded
\* one starts the entry again.
UpdateStats_Recreate(st, network, block_num) ==
    IF network \in DOMAIN st /\ block_num > st[network].last_block
    THEN [st EXCEPT ![network] =
             [first_block |-> st[network].first_block,
              last_block |-> block_num,
              blocks_processed |-> block_num - st[network].first_block]]
    ELSE [n \in DOMAIN st \cup {network} |->
             IF n = network
             THEN [first_block |-> block_num, last_block |-> block_num,
                   blocks_processed |-> 0]
             ELSE st[n]]

\* The body of the inner try for one parsed block number.
UpdateStats(st, network, block_num) ==
    IF network \notin DOMAIN st
    THEN (network :> [first_block |-> block_num,
                      last_block |-> block_num,
                      blocks_processed |-> 0]) @@ st
    ELSE LET old_block == st[network].last_block
         IN  IF block_num > old_block
             THEN [st EXCEPT ![network] =
                      [first_block |-> st[network].first_block,
                       last_block |-> block_num,
                       blocks_processed |-> block_num - st[network].first_block]]
             ELSE st

\* History: which branch of the inner try a marker read takes.
ReadKind(st, network, r) ==
    IF r[1] # "ok" THEN "error"
    ELSE IF network \notin DOMAIN st THEN "first"
    ELSE IF r[2] > st[network].last_block THEN "advance"
    ELSE "stale"

\* Mutant of MonitorCheck: the loop does not look at the run flag.
MonitorCheck_IgnoreFlag ==
    /\ tpc = "check"
    /\ pc # "exit"
    /\ \E files \in SUBSET data_dir : pending' = files
    /\ tpc' = "scan"
    /\ UNCHANGED <<envVars, iterVars, pipeVars, pc, after, cfgVars, temp_dir, running, stats,
                   last_read, childVars, stopVars, report, fatal, interrupts, exit_status>>

\* while self.running: the glob of the marker files, or the end of the thread.
MonitorCheck ==
    /\ tpc = "check"
    /\ pc # "exit"
    /\ IF running
       THEN /\ \E files \in SUBSET data_dir : pending' = files
            /\ tpc' = "scan"
       ELSE /\ tpc' = "done"
            /\ UNCHANGED pending
    /\ UNCHANGED <<envVars, iterVars, pipeVars, pc, after, cfgVars, temp_dir, running, stats, last_read, childVars,
                   stopVars, report, fatal, interrupts, exit_status>>

\* Mutant of MonitorReadOf: no inner try, so a failed read reaches the outer
\* except clause and the rest of the iteration is skipped.
MonitorReadOf_Abort(network, r) ==
    /\ tpc = "scan"
    /\ pc # "exit"
    /\ network \in pending
    /\ IF r[1] = "ok"
       THEN /\ pending' = pending \ {network}
            /\ stats' = UpdateStats(stats, network, r[2])
            /\ tpc' = tpc
       ELSE /\ pending' = {}
            /\ stats' = stats
            /\ tpc' = "check"
    /\ last_read' = ReadKind(stats, network, r)
    /\ UNCHANGED <<envVars, iterVars, pipeVars, pc, after, cfgVars, temp_dir, running,
                   childVars, stopVars, report, fatal, interrupts, exit_status>>

\* One marker file of the iteration: read, parse, update; an exception skips it.
MonitorReadOf(network, r) ==
    /\ tpc = "scan"
    /\ pc # "exit"
    /\ network \in pending
    /\ pending' = pending \ {network}
    /\ stats' = IF r[1] = "ok" THEN UpdateStats(stats, network, r[2]) ELSE stats
    /\ last_read' = ReadKind(stats, network, r)
    /\ UNCHANGED <<envVars, iterVars, pipeVars, pc, after, cfgVars, temp_dir, running, tpc, childVars,
                   stopVars, report, fatal, interrupts, exit_status>>

MonitorRead == \E network \in data_dir, r \in MarkerReadings : MonitorReadOf(network, r)

\* The scan of the missed-block files (which changes no statistics) and
\* time.sleep(1).
MonitorSleep ==
    /\ tpc = "scan"
    /\ pc # "exit"
    /\ pending = {}
    /\ tpc' = "check"
    /\ UNCHANGED <<envVars, iterVars, pipeVars, pc, after, cfgVars, temp_dir, running, pending, stats,
                   last_read, childVars, stopVars, report, fatal, interrupts, exit_status>>

----------------------------------------------------------------------------
(* The stores and command lines the runs start from *)

\* Longest rpc_urls column.
MaxUrls == 2

NetRow(slug, type, tenant, active, deleted, sb, urls) ==
    [name |-> slug, slug |-> slug, network_type |-> type, rpc_urls |-> urls,
     store_blocks |-> sb, tenant_id |-> tenant, active |-> active, deleted |-> deleted]

RowEth == NetRow("eth", "EVM", "T1", TRUE, FALSE, FALSE, JL(<<JS("u1")>>))
RowXlm == NetRow("xlm", "Stellar", "T1", TRUE, FALSE, TRUE,
                 JL(<<JO([url |-> JO([value |-> JS("u2")]), weight |-> JN(50)])>>))
RowMid == NetRow("mid", "Midnight", "T1", TRUE, FALSE, FALSE, JL(<<JO([url |-> JS("u1")])>>))
RowOld == NetRow("old", "EVM", "T1", FALSE, FALSE, FALSE, JNull)
RowDel == NetRow("del", "EVM", "T1", TRUE, TRUE, FALSE, JNull)
RowOther == NetRow("oth", "Stellar", "T2", TRUE, FALSE, FALSE, JNull)
NetRows == {RowEth, RowXlm, RowMid, RowOld, RowDel, RowOther}

Urls == {"u1", "u2"}
Weights == {JN(50), JN(100)}
\* The shapes an element of the rpc_urls column takes.
PlainEndpoints == {JS(u) : u \in Urls}
FlatEndpoints ==
    {JO([url |-> JS(u)]) : u \in Urls}
    \cup {JO([url |-> JS(u), weight |-> w]) : u \in Urls, w \in Weights}
NestedEndpoints ==
    {JO([url |-> JO([value |-> JS(u)])]) : u \in Urls}
    \cup {JO([url |-> JO([value |-> JS(u)]), weight |-> w]) : u \in Urls, w \in Weights}
    \cup {JO([type_ |-> JS("rpc"), url |-> JO([type |-> JS("plain"), value |-> JS(u)]),
              weight |-> w]) : u \in Urls, w \in Weights}
Endpoints == PlainEndpoints \cup FlatEndpoints \cup NestedEndpoints
UrlColumns ==
    {JNull} \cup {JL(q) : q \in UNION {[1..n -> Endpoints] : n \in 0..MaxUrls}}

NetFile(stem, content) == [stem |-> stem, content |-> content]
FileEth == NetFile("ethereum", JO([slug |-> JS("eth"), network_type |-> JS("EVM"),
                                   store_blocks |-> JB(FALSE)]))
FileXlm == NetFile("xlm", JO([network_type |-> JS("Stellar")]))
FileMid == NetFile("mid", JO([slug |-> JS("mid"), network_type |-> JS("Midnight")]))
FileBad == NetFile("bad", Malformed)
FileDup == NetFile("eth", JO([network_type |-> JS("Stellar")]))
NetFiles == {FileEth, FileXlm, FileMid, FileBad, FileDup}

Selections == SUBSET {"eth", "xlm", "nope"}

MonRow(slug, active, paused, triggers) ==
    [slug |-> slug, tenant_id |-> "T1", active |-> active, paused |-> paused,
     deleted |-> FALSE, networks |-> JL(<<JS("eth")>>), triggers |-> triggers]
MonA == MonRow("ma", TRUE, FALSE, JL(<<JS("t1"), JS("ghost")>>))
MonB == MonRow("mb", TRUE, FALSE, JL(<<JO([id |-> JS("id2")]), JS("t3")>>))
MonPaused == MonRow("mp", TRUE, TRUE, JL(<<JS("t2")>>))
MonNull == MonRow("mn", TRUE, FALSE, JNull)
MonRows == {MonA, MonB, MonPaused, MonNull}

TrigRow(id, slug, type, active) ==
    [id |-> id, slug |-> slug, name |-> slug, trigger_type |-> type,
     tenant_id |-> "T1", active |-> active, deleted |-> FALSE]
TrigRows == {TrigRow("id1", "t1", "email", TRUE),
             TrigRow("id2", "t2", "webhook", TRUE),
             TrigRow("id3", "t3", "email", TRUE)}
EmailRows == {[trigger_id |-> "id1", host |-> "smtp", recipients |-> "ops"],
              [trigger_id |-> "id3", host |-> "smtp", recipients |-> "dev"]}
WebhookRows == {[trigger_id |-> "id2", url_value |-> "hook", secret_value |-> ""]}

Db(up, nets, mons, trigs, email, webhook) ==
    [up |-> up, networks |-> nets, monitors |-> mons, triggers |-> trigs,
     email |-> email, webhook |-> webhook]
Fs(dir, files, bins) == [network_dir |-> dir, net_files |-> files, binaries |-> bins]

EmptyDb == Db(TRUE, {}, {}, {}, {}, {})
EmptyFs(bins) == Fs(FALSE, {}, bins)
EmptyWritten == [networks |-> EmptyMap, monitors |-> EmptyMap, triggers |-> EmptyMap]

\* The state right after BlockWatcherRunner.__init__.
Constructed ==
    /\ pc = "load"
    /\ after = "return"
    /\ networks = EmptyMap
    /\ written = EmptyWritten
    /\ loaded = <<>>
    /\ load_failed = FALSE
    /\ temp_dir = "none"
    /\ running = FALSE
    /\ tpc = "unstarted"
    /\ pending = {}
    /\ stats = EmptyMap
    /\ last_read = "none"
    /\ child = "none"
    /\ child_code = <<>>
    /\ term_sent = FALSE
    /\ kill_sent = FALSE
    /\ stop_elapsed = 0
    /\ outcome = "none"
    /\ report = <<>>
    /\ iter_keys = {}
    /\ reading = <<>>
    /\ stdout_buf = 0
    /\ stderr_buf = 0
    /\ blocked = "none"
    /\ fatal = "none"
    /\ interrupts = 0
    /\ exit_status = <<>>

\* Runs that differ in backend, verbosity, selection, database availability and
\* the presence of the binary, over two networks.
Init ==
    /\ Constructed
    /\ data_dir = {"eth"}
    /\ use_database \in BOOLEAN
    /\ verbose \in BOOLEAN
    /\ store_blocks = FALSE
    /\ self_networks \in {{}, {"nope"}}
    /\ \E bins \in {{}, {"debug"}} :
          IF use_database
          THEN /\ \E up \in BOOLEAN :
                     db = Db(up, {RowEth, RowXlm}, {MonA}, TrigRows, EmailRows, WebhookRows)
               /\ fs = EmptyFs(bins)
          ELSE /\ db = EmptyDb
               /\ fs = Fs(TRUE, {FileEth, FileXlm}, bins)

\* Command lines and stores for the startup path: every selection over every
\* set of network rows or files, every set of binaries, every rpc_urls column,
\* every set of monitor and trigger rows.
InitStartup ==
    /\ Constructed
    /\ data_dir = {}
    /\ \/ /\ use_database = TRUE
          /\ verbose = FALSE
          /\ store_blocks \in BOOLEAN
          /\ self_networks \in Selections
          /\ \E up \in BOOLEAN, rows \in SUBSET NetRows :
                db = Db(up, rows, {MonA}, TrigRows, EmailRows, WebhookRows)
          /\ fs = EmptyFs({"release"})
       \/ /\ use_database = FALSE
          /\ verbose = FALSE
          /\ store_blocks \in BOOLEAN
          /\ self_networks \in Selections
          /\ db = EmptyDb
          /\ \E dir \in BOOLEAN, files \in SUBSET NetFiles :
                fs = Fs(dir, files, {"release"})
       \/ /\ use_database \in BOOLEAN
          /\ verbose \in BOOLEAN
          /\ store_blocks = FALSE
          /\ self_networks = {}
          /\ \E bins \in SUBSET BinaryPaths :
                IF use_database
                THEN /\ db = Db(TRUE, {RowEth}, {}, {}, {}, {})
                     /\ fs = EmptyFs(bins)
                ELSE /\ db = EmptyDb
                     /\ fs = Fs(TRUE, {FileEth}, bins)
       \/ /\ use_database = TRUE
          /\ verbose = FALSE
          /\ store_blocks = FALSE
          /\ self_networks = {}
          /\ \E urls \in UrlColumns :
                db = Db(TRUE, {NetRow("eth", "EVM", "T1", TRUE, FALSE, FALSE, urls)},
                        {}, {}, {}, {})
          /\ fs = EmptyFs({"release"})
       \/ /\ use_database = TRUE
          /\ verbose = FALSE
          /\ store_blocks = FALSE
          /\ self_networks = {}
          /\ \E rows \in SUBSET {RowEth, RowXlm, RowMid}, mons \in SUBSET MonRows,
                trigs \in SUBSET TrigRows, email \in SUBSET EmailRows,
                webhook \in SUBSET WebhookRows :
                db = Db(TRUE, rows, mons, trigs, email, webhook)
          /\ fs = EmptyFs({"release"})

\* The startup path of run(), up to the launch of the child.
NextStartup ==
    \/ load_network_configs_from_db
    \/ load_network_configs_from_files
    \/ create_minimal_configs
    \/ build_command
    \/ StartMonitorThread
    \/ Launch

\* Every step of a run whose child writes nothing to its output streams (the
\* child's output is in NextPipes).
Next ==
    \/ load_network_configs_from_db
    \/ load_network_configs_from_files
    \/ create_minimal_configs
    \/ build_command
    \/ StartMonitorThread
    \/ Launch
    \/ RelayEnds
    \/ WaitReturns
    \/ SupervisingError
    \/ InterruptStartup
    \/ InterruptRun
    \/ InterruptShutdown
    \/ ShutdownBegin
    \/ StopTick
    \/ StopWaitReturns
    \/ StopTimeoutExpired
    \/ FinalStatisticsBegin
    \/ FinalStatisticsNext
    \/ FinalStatisticsEntry
    \/ cleanup
    \/ ChildExits
    \/ MonitorCheck
    \/ MonitorRead
    \/ MonitorSleep

\* One file-backend run over two networks whose markers the tracker polls.
InitTracker ==
    /\ Constructed
    /\ data_dir = {"eth", "xlm"}
    /\ use_database = FALSE
    /\ verbose \in BOOLEAN
    /\ store_blocks = FALSE
    /\ self_networks = {}
    /\ db = EmptyDb
    /\ fs = Fs(TRUE, {FileEth, FileXlm}, {"release"})

\* A run up to the stop request, with the polling loop.
NextTracker ==
    \/ load_network_configs_from_files
    \/ create_minimal_configs
    \/ build_command
    \/ StartMonitorThread
    \/ Launch
    \/ InterruptRun
    \/ ShutdownBegin
    \/ MonitorCheck
    \/ MonitorRead
    \/ MonitorSleep

\* One verbose file-backend run over two networks, ended by one interrupt.
InitReport ==
    /\ Constructed
    /\ data_dir = {"eth", "xlm"}
    /\ use_database = FALSE
    /\ verbose = TRUE
    /\ store_blocks = FALSE
    /\ self_networks = {}
    /\ db = EmptyDb
    /\ fs = Fs(TRUE, {FileEth, FileXlm}, {"release"})

\* The run, its stop on an interrupt with a child that honours SIGTERM, and the
\* final report, with the polling loop.
NextReport ==
    \/ load_network_configs_from_files
    \/ create_minimal_configs
    \/ build_command
    \/ StartMonitorThread
    \/ Launch
    \/ InterruptRun
    \/ ShutdownBegin
    \/ StopWaitReturns
    \/ FinalStatisticsBegin
    \/ FinalStatisticsNext
    \/ FinalStatisticsEntry
    \/ cleanup
    \/ ChildExits
    \/ MonitorCheck
    \/ MonitorRead
    \/ MonitorSleep

Spec == Init /\ [][Next]_vars

SpecStartup == InitStartup /\ [][NextStartup]_vars

SpecTracker == InitTracker /\ [][NextTracker]_vars

SpecReport == InitReport /\ [][NextReport]_vars

\* One verbose file-backend run over one network, ended by one interrupt.
InitStop ==
    /\ Constructed
    /\ data_dir = {"eth"}
    /\ use_database = FALSE
    /\ verbose = TRUE
    /\ store_blocks = FALSE
    /\ self_networks = {}
    /\ db = EmptyDb
    /\ fs = Fs(TRUE, {FileEth}, {"release"})

\* The monitor thread is scheduled for as long as the process lives: each of
\* its steps that stays enabled is eventually taken.
TrackerFairness ==
    /\ WF_vars(MonitorCheck)
    /\ WF_vars(MonitorRead)
    /\ WF_vars(MonitorSleep)

\* One file-backend run without --verbose: the child's output goes to pipes.
InitPipes ==
    /\ Constructed
    /\ data_dir = {}
    /\ use_database = FALSE
    /\ verbose = FALSE
    /\ store_blocks = FALSE
    /\ self_networks = {}
    /\ db = EmptyDb
    /\ fs = Fs(TRUE, {FileEth}, {"release"})

\* The run of a child that writes to stdout and stderr, ended by the child or
\* by an interrupt.
NextPipes ==
    \/ load_network_configs_from_files
    \/ create_minimal_configs
    \/ build_command
    \/ StartMonitorThread
    \/ Launch
    \/ ChildWrites
    \/ ChildUnblocks
    \/ RelayReads
    \/ RelayEnds
    \/ WaitReturns
    \/ InterruptRun
    \/ ShutdownBegin
    \/ StopTick
    \/ StopWaitReturns
    \/ StopTimeoutExpired
    \/ FinalStatisticsBegin
    \/ cleanup
    \/ ChildExits

SpecPipes == InitPipes /\ [][NextPipes]_vars

SpecStop == InitStop /\ [][NextReport]_vars /\ TrackerFairness

----------------------------------------------------------------------------
(* Properties *)

\* C1: for every network, blocks_processed equals last_block - first_block in
\* every state the tracker reaches, and a marker read whose block number is not
\* greater than the recorded last_block leaves the statistics map (first_block,
\* last_block and blocks_processed of every network) unchanged.
C1_BlocksProcessed ==
    /\ [](\A n \in DOMAIN stats :
             stats[n].blocks_processed = stats[n].last_block - stats[n].first_block)
    /\ [][\A n \in data_dir, b \in 0..MaxBlock :
             (/\ MonitorReadOf(n, <<"ok", b>>)
              /\ n \in DOMAIN stats
              /\ b <= stats[n].last_block) => stats' = stats]_vars

\* A network has advanced and the latest read of a marker was a stale one.
C1_Witness ==
    /\ last_read = "stale"
    /\ \E n \in DOMAIN stats : stats[n].blocks_processed > 0

\* C2: when the timed wait of the stop path ends, it ends either because the
\* child has exited, and then the outcome is Stopped and no kill is sent then or
\* later, or because the child is still running after the full 10 seconds, and
\* then the child is killed and the outcome is Killed; a kill is only ever sent
\* after SIGTERM and after the 10 seconds have passed.
C2_StopPath ==
    /\ [](/\ (outcome = "Stopped" => ~kill_sent)
          /\ (outcome = "Killed" => kill_sent /\ stop_elapsed = StopTimeout)
          /\ (kill_sent => term_sent /\ stop_elapsed = StopTimeout))
    /\ [][(pc = "stop_wait" /\ pc' = "report") =>
             \/ child = "exited" /\ outcome' = "Stopped" /\ ~kill_sent'
             \/ /\ child = "running" /\ stop_elapsed = StopTimeout
                /\ kill_sent' /\ child' = "exited" /\ outcome' = "Killed"]_vars

\* The child ignored SIGTERM for the whole window and was killed.
C2_Witness ==
    /\ outcome = "Killed"
    /\ kill_sent
    /\ term_sent
    /\ stop_elapsed = StopTimeout
    /\ child_code = <<-9>>

\* C3: when the child was launched and exits with a non-zero code, with no
\* interrupt, the orchestrator terminates with a non-zero status.
C3_ExitCodeSurfaced ==
    (pc = "exit" /\ child = "exited" /\ interrupts = 0 /\ child_code # <<0>>)
        => exit_status # <<0>>

\* C4: whenever the orchestrator terminates after the child was launched, the
\* final report over the collected statistics has been printed.
C4_ReportAlways ==
    (pc = "exit" /\ child # "none" /\ stats # EmptyMap) => report # <<>>

\* The three fatal startup conditions, read off the stores and the command line.
NoBinary == fs.binaries \cap BinaryPaths = {}
DbConnectionFails == use_database /\ ~db.up
ActiveRows == {r \in db.networks : r.tenant_id = TenantId /\ r.active /\ ~r.deleted}
ParsedFiles == {f \in fs.net_files : f.content # Malformed}
ExistingSlugs ==
    IF use_database THEN {r.slug : r \in ActiveRows}
    ELSE {Get(f.content, "slug", JS(f.stem))[2] : f \in ParsedFiles}
BackendAvailable == IF use_database THEN db.up ELSE fs.network_dir
ZeroNetworksResolve ==
    /\ BackendAvailable
    /\ \/ ExistingSlugs = {}
       \/ self_networks # {} /\ self_networks \cap ExistingSlugs = {}

\* C5: when the binary is missing at all three paths, or zero networks
\* resolve, or the database connection fails during the network load, the child
\* is never launched, the polling loop is never started, and the process ends
\* with status 1; when the network load is what fails, nothing is written.
C5_FatalStartup ==
    /\ (NoBinary \/ ZeroNetworksResolve \/ DbConnectionFails) =>
          /\ child = "none"
          /\ tpc = "unstarted"
          /\ ~running
          /\ pc \in {"load", "synth", "build", "exit"}
          /\ (pc = "exit" => exit_status = <<1>>)
    /\ (ZeroNetworksResolve \/ DbConnectionFails) =>
          /\ pc \in {"load", "exit"}
          /\ written = EmptyWritten

\* The configuration was written and the run then ended on the missing binary.
C5_Witness ==
    /\ pc = "exit"
    /\ NoBinary
    /\ fatal = "no_binary"
    /\ written.networks # EmptyMap
    /\ exit_status = <<1>>

\* Synthesis has run: the network files are written.
Synthesized == written.networks # EmptyMap
\* The monitor rows the tenant has active, not paused and not deleted.
ActiveMonitorRows ==
    {r \in db.monitors : r.tenant_id = TenantId /\ r.active /\ ~r.paused /\ ~r.deleted}
ZeroMonitorsSupplied == ~use_database \/ ActiveMonitorRows = {}
TypesPresent == {Get(networks[s], "network_type", JNull) : s \in DOMAIN networks}

\* C6: when no monitors are supplied, the number of default monitor files
\* written equals the number of distinct network types among the loaded
\* networks, and every one of them has an empty triggers list.
C6_OneDefaultPerType ==
    (Synthesized /\ ZeroMonitorsSupplied) =>
        /\ Cardinality(DOMAIN written.monitors) = Cardinality(TypesPresent)
        /\ \A m \in DOMAIN written.monitors : written.monitors[m][2]["triggers"] = JL(<<>>)

\* C7: with the backend available, a non-empty selection that shares no slug
\* with the existing (active) networks ends the load with the not-found failure
\* and no mapping; an empty selection over at least one existing network
\* returns exactly the existing networks, each under its slug.
C7_Selection ==
    (pc # "load" /\ BackendAvailable) =>
        /\ (self_networks # {} /\ self_networks \cap ExistingSlugs = {}) =>
              /\ pc = "exit"
              /\ fatal = "no_networks"
              /\ exit_status = <<1>>
              /\ networks = EmptyMap
        /\ (self_networks = {} /\ ExistingSlugs # {}) =>
              /\ DOMAIN networks = ExistingSlugs
              /\ \A s \in DOMAIN networks :
                    IF use_database
                    THEN \E r \in ActiveRows :
                            /\ r.slug = s
                            /\ networks[s][2]["slug"] = JS(s)
                            /\ networks[s][2]["name"] = JS(r.name)
                            /\ networks[s][2]["network_type"] = JS(r.network_type)
                    ELSE \E f \in ParsedFiles :
                            /\ Get(f.content, "slug", JS(f.stem)) = JS(s)
                            /\ networks[s] = f.content

\* An empty selection over a table that also holds an inactive, a deleted and
\* another tenant's row returned the three active networks.
C7_Witness ==
    /\ use_database
    /\ self_networks = {}
    /\ db.networks = NetRows
    /\ pc = "synth"
    /\ DOMAIN networks = {"eth", "xlm", "mid"}

\* The monitors of the database were the ones written.
DbMonitorsWritten ==
    /\ use_database
    /\ ActiveMonitorRows # {}
    /\ DOMAIN written.monitors = {r.slug : r \in ActiveMonitorRows}
\* Trigger t is referenced by a loaded monitor, by slug or by id.
Referenced(t) ==
    \E r \in ActiveMonitorRows : \E i \in 1..Len(r.triggers[2]) :
        r.triggers[2][i] \in {JS(t.slug), JO([id |-> JS(t.id)])}
\* Trigger t has the sub-record of its type.
HasSubRecord(t) ==
    \/ t.trigger_type = "email" /\ \E e \in db.email : e.trigger_id = t.id
    \/ t.trigger_type = "webhook" /\ \E w \in db.webhook : w.trigger_id = t.id
ResolvedSlugs ==
    {t.slug : t \in {t \in db.triggers : /\ t.tenant_id = TenantId /\ t.active /\ ~t.deleted
                                         /\ Referenced(t) /\ HasSubRecord(t)}}
MergedKeys == UNION {DOMAIN written.triggers[f][2] : f \in DOMAIN written.triggers}

\* C8: the keys of the merged trigger file are exactly the slugs of the
\* triggers that the loaded monitors reference and that resolve to a trigger
\* record with its email or webhook sub-record, and every monitor file holds
\* the monitor's original references.
C8_MergedTriggerKeys ==
    DbMonitorsWritten =>
        /\ MergedKeys = ResolvedSlugs
        /\ \A r \in ActiveMonitorRows : written.monitors[r.slug][2]["triggers"] = r.triggers

\* C9: the database backend never allocates a temporary directory; the file
\* backend has allocated one once the configuration is written, and when the
\* process has ended the directory is gone: removed by cleanup() on every path
\* through the finally clause of run(), and by the interpreter's finalizer of the
\* TemporaryDirectory when the run ended before the try block (missing binary,
\* interrupt during startup).
C9_EphemeralDirectory ==
    /\ use_database => temp_dir = "none"
    /\ (~use_database /\ Synthesized) => temp_dir # "none"
    /\ (pc = "exit" /\ temp_dir # "none") =>
          temp_dir = (IF fatal = "none" THEN "cleaned" ELSE "finalized")

\* The file backend wrote its configuration, the binary was missing, and the
\* directory was removed as the process ended.
C9_Witness ==
    /\ ~use_database
    /\ pc = "exit"
    /\ fatal = "no_binary"
    /\ Synthesized
    /\ temp_dir = "finalized"

\* The canonical endpoint shape.
IsCanonical(n) ==
    /\ n[1] = "obj"
    /\ DOMAIN n[2] = {"type_", "url", "weight"}
    /\ n[2]["type_"] = JS("rpc")
    /\ n[2]["url"][1] = "obj"
    /\ DOMAIN n[2]["url"][2] = {"type", "value"}
    /\ n[2]["url"][2]["type"] = JS("plain")
    /\ n[2]["url"][2]["value"][1] = "str"
    /\ n[2]["weight"][1] = "num"
\* The URL and the weight an endpoint of the column carries, by its shape.
UrlOf(e) ==
    IF e[1] = "str" THEN e
    ELSE IF e[2]["url"][1] = "str" THEN e[2]["url"]
    ELSE e[2]["url"][2]["value"]
WeightOf(e) ==
    IF e[1] = "obj" /\ "weight" \in DOMAIN e[2] THEN e[2]["weight"] ELSE JN(100)

\* C10: every endpoint of a network loaded from the database has the canonical
\* shape, carries the URL of the column's endpoint and its weight (100 when it
\* has none), and normalizing it again gives the same endpoint.
C10_NormalizeIdempotent ==
    (use_database /\ pc # "load") =>
        \A s \in DOMAIN networks : \A r \in ActiveRows :
            (r.slug = s /\ r.rpc_urls[1] = "list" /\ Len(r.rpc_urls[2]) > 0) =>
                LET got == networks[s][2]["rpc_urls"]
                IN  /\ got[1] = "list"
                    /\ Len(got[2]) = Len(r.rpc_urls[2])
                    /\ \A i \in 1..Len(got[2]) :
                          /\ IsCanonical(got[2][i])
                          /\ got[2][i][2]["url"][2]["value"] = UrlOf(r.rpc_urls[2][i])
                          /\ got[2][i][2]["weight"] = WeightOf(r.rpc_urls[2][i])
                          /\ FormatRpc(got[2][i]) = got[2][i]

\* A column holding a nested endpoint without weight and a plain string was
\* loaded, and the nested one got weight 100.
C10_Witness ==
    /\ use_database
    /\ pc = "synth"
    /\ \E r \in db.networks :
          /\ r.rpc_urls = JL(<<JO([url |-> JO([value |-> JS("u1")])]), JS("u2")>>)
          /\ r.slug \in DOMAIN networks
          /\ networks[r.slug][2]["rpc_urls"][2][1] =
                JO([type_ |-> JS("rpc"),
                    url |-> JO([type |-> JS("plain"), value |-> JS("u1")]),
                    weight |-> JN(100)])

\* The orchestrator is reading self.stats for the final report.
ReportInProgress == pc \in {"report_next", "report_entry"}

\* C11: from the moment the final report starts reading the statistics map
\* until the report is complete the map is not written (no entry is added, no
\* field of an entry changes), and every entry the report prints satisfies
\* blocks_processed = last_block - first_block.
C11_ReportSnapshot ==
    /\ [][ReportInProgress => stats' = stats]_vars
    /\ [](report # <<>> =>
            \A n \in DOMAIN report[1] :
                report[1][n].blocks_processed =
                    report[1][n].last_block - stats[n].first_block)

\* What a load that succeeds and finds no monitor and no trigger returns.
SuccessWithNothing == LoadMonitorsAndTriggers(EmptyDb, TRUE)

\* C12: when the load of monitors and triggers fails, the process is not
\* terminated by it (the configuration is written and the run goes on to the
\* binary check), and what the caller receives differs from what a successful
\* load of zero monitors and zero triggers returns.
C12_LoadFailureReported ==
    load_failed =>
        /\ written # EmptyWritten
        /\ pc = "exit" => fatal = "no_binary"
        /\ loaded # <<SuccessWithNothing>>

\* The supervisor's RunState, read off the run flag, the process handle and the
\* outcome shutdown() reported: Idle until the try block of run() is entered,
\* Starting until Popen has returned, Running while the run flag is set,
\* Stopping from the first line of shutdown() on, Stopped or Killed once
\* shutdown() has reported. A run interrupted before Popen returned has no
\* process handle: shutdown() requests nothing and the state stays Starting.
RunState ==
    IF outcome # "none" THEN outcome
    ELSE IF child # "none" THEN (IF running THEN "Running" ELSE "Stopping")
    ELSE IF pc \in {"load", "synth", "build", "start"} \/ fatal # "none" THEN "Idle"
    ELSE "Starting"

RunStateEdges ==
    {<<"Idle", "Starting">>, <<"Starting", "Running">>, <<"Running", "Stopping">>,
     <<"Stopping", "Stopped">>, <<"Stopping", "Killed">>}

\* C13: the RunState changes only along Idle -> Starting -> Running -> Stopping
\* -> Stopped|Killed; it goes from Running to Stopping only after an interrupt or
\* a supervising error; it becomes Killed only when the stop timeout has
\* expired; and it never leaves Stopped or Killed.
C13_RunStateChain ==
    [][/\ RunState' # RunState => <<RunState, RunState'>> \in RunStateEdges
       /\ (RunState = "Running" /\ RunState' = "Stopping") =>
              (interrupts > 0 \/ after = "exit1")
       /\ (RunState # "Killed" /\ RunState' = "Killed") => stop_elapsed = StopTimeout
       /\ RunState \in {"Stopped", "Killed"} => RunState' = RunState]_vars

\* A supervising error stopped a running child, which exited within the window.
C13_Witness ==
    /\ RunState = "Stopped"
    /\ after = "exit1"
    /\ interrupts = 0
    /\ term_sent
    /\ pc = "exit"

\* The orchestrator has requested stop: shutdown() has cleared the run flag of a
\* started monitor thread.
StopRequested == ~running /\ tpc # "unstarted"

\* C14 as stated: once stop is requested the polling loop is never cut off: it
\* ends only by leaving the loop.
C14_NeverInterrupted == StopRequested => tpc # "killed"

\* C14, amended: once the run flag is cleared the polling loop begins no further
\* iteration (so no statistics update happens in an iteration begun afterwards);
\* the stop request itself leaves the loop where it is; the loop is cut off only
\* by the end of the process; and the loop eventually ends, by leaving the loop
\* at its next check of the flag or, as a daemon thread, with the process.
C14_CooperativeStop ==
    /\ [][~running => ~(tpc = "check" /\ tpc' = "scan")]_vars
    /\ [][(running /\ ~running') => UNCHANGED <<tpc, pending, stats>>]_vars
    /\ [][(tpc # "killed" /\ tpc' = "killed") => (pc # "exit" /\ pc' = "exit")]_vars
    /\ (StopRequested /\ tpc \in {"check", "scan"}) ~> (tpc \in {"done", "killed"})

\* Stop was requested during an iteration that went on to record a block, and
\* the loop then left by itself while the orchestrator was still running.
C14_Witness ==
    /\ StopRequested
    /\ tpc = "done"
    /\ stats # EmptyMap
    /\ pc # "exit"

\* C15: an entry is created by the first successfully parsed marker of its
\* network, with first_block = last_block = that block number and
\* blocks_processed = 0; from then on its first_block never changes, its
\* last_block never decreases and the entry is never removed; and the map
\* changes only in a marker read of the tracker.
C15_Lifecycle ==
    [][/\ \A n \in DOMAIN stats :
             /\ n \in DOMAIN stats'
             /\ stats'[n].first_block = stats[n].first_block
             /\ stats'[n].last_block >= stats[n].last_block
       /\ \A n \in data_dir, b \in 0..MaxBlock :
             (MonitorReadOf(n, <<"ok", b>>) /\ n \notin DOMAIN stats) =>
                 /\ n \in DOMAIN stats'
                 /\ stats'[n] = [first_block |-> b, last_block |-> b,
                                 blocks_processed |-> 0]
       /\ \A n \in DOMAIN stats' \ DOMAIN stats :
             \E b \in 0..MaxBlock : MonitorReadOf(n, <<"ok", b>>)
       /\ stats' # stats => (tpc = "scan" /\ pending' # pending /\ pc' = pc)]_vars

\* Both networks have an entry, one of them has advanced past its first block,
\* and the latest read was an advance.
C15_Witness ==
    /\ DOMAIN stats = {"eth", "xlm"}
    /\ last_read = "advance"
    /\ \E n \in DOMAIN stats : stats[n].first_block < stats[n].last_block

\* The step is the read of one marker file that failed.
FailedRead == tpc = "scan" /\ pc' = pc /\ pending' # pending /\ last_read' = "error"

\* C16: a failed read of one marker file leaves the statistics unchanged and
\* only takes that file off the iteration, whose remaining files are still to be
\* read; an iteration ends only when all its files were read; and the loop ends
\* only when the run flag is cleared.
C16_ReadFailureIsolated ==
    /\ [][FailedRead =>
            /\ stats' = stats
            /\ tpc' = "scan"
            /\ pending' \subseteq pending
            /\ Cardinality(pending') = Cardinality(pending) - 1]_vars
    /\ [][(tpc = "scan" /\ tpc' = "check") => pending = {}]_vars
    /\ [][(tpc # "done" /\ tpc' = "done") => ~running]_vars

\* The read of one marker failed while the run flag is set, with an entry
\* recorded and another marker of the same iteration still to read.
C16_Witness ==
    /\ last_read = "error"
    /\ tpc = "scan"
    /\ pending # {}
    /\ running
    /\ stats # EmptyMap

\* C17: whenever the orchestrator has terminated after launching the child, the
\* child is no longer running.
C17_NoOrphanedChild == (pc = "exit" /\ child # "none") => child = "exited"

\* The supervisor is reading the pipe of the stream: only stdout, and only in
\* the relay loop.
SupervisorReads(stream) == pc = "relay" /\ stream = "stdout"

\* C18: without --verbose, while the supervisor relays and waits for the running
\* child, a child blocked in a write is blocked on a pipe the supervisor is
\* reading, so the write completes and the child goes on.
C18_PipesDrained ==
    (~verbose /\ child = "running" /\ blocked # "none" /\ pc \in {"relay", "wait"})
        => SupervisorReads(blocked)

====
